---------------------------- MODULE Spec2Model ----------------------------
(***************************************************************************)
(* A model of test-files/test-file.py: greet, the Calculator class, the    *)
(* multiply lambda, the fetch_data coroutine and the __main__ block.       *)
(*                                                                         *)
(* Strings are sequences of one-character strings, Python integers are     *)
(* unbounded integers, a Calculator is an identity (a heap address) with a *)
(* result field.  The aiohttp library is the environment of fetch_data:    *)
(* each of its operations either succeeds or raises, as decided by the     *)
(* fate chosen for the call.                                               *)
(***************************************************************************)
EXTENDS Integers, Sequences, FiniteSets, TLC

\* ------------------------------------------------------------------ bounds
\* Most Calculator objects alive at once.
MaxHolders == 2
\* Integer arguments range over -MaxInt..MaxInt.
MaxInt == 1
\* Longest name a client passes to greet.
MaxNameLen == 2
\* fetch_data calls that may be in flight together.
NumCalls == 2

\* ------------------------------------------------------------------ values
None == "None"

IntArgs == (0 - MaxInt)..MaxInt

HolderIds == 1..MaxHolders

\* Characters of the names: a letter, a space (something a trim would
\* remove) and a brace (something a format escape would touch).
Chars == {"a", " ", "{"}

\* "World", the name the __main__ block greets.
World == <<"W", "o", "r", "l", "d">>

SeqsUpTo(S, n) == UNION {[1..k -> S] : k \in 0..n}

Names == SeqsUpTo(Chars, MaxNameLen) \cup {World}

\* The literal text of the f-string before and after the replacement field.
HelloPrefix == <<"H", "e", "l", "l", "o", ",", " ">>

BangSuffix == <<"!">>

\* ------------------------------------------------------------------ state
VARIABLES
    mode,      \* "script": __name__ == "__main__"; "import": used as a module
    pc,        \* position of the __main__ block
    calc,      \* the __main__ block's variable calc (0: unbound)
    stdout,    \* the lines printed so far
    heap,      \* the Calculator objects: identity -> [result]
    call,      \* the call that completed last: [fn, self, args, ret, prev]
    installed, \* whether `import aiohttp` finds the package
    fpc,       \* position of each fetch_data call
    furl,      \* each call's url argument
    fate,      \* what the network will do to each call
    locals,    \* each frame's local variables session and response
    mgr,       \* the context managers each call's `async with` holds
    res,       \* the network resources: id -> [kind, owner, open, users]
    exc,       \* the exception in flight in each call
    retval,    \* the value each call's return statement has computed
    outcome,   \* how each finished call ended: [kind, value]
    steps,     \* the steps each call has executed, in order
    reqs       \* the GET requests issued: [by, url, session, open]

calcVars == <<mode, pc, calc, stdout, heap, call>>

fetchVars == <<installed, fpc, furl, fate, locals, mgr, res, exc, retval, outcome, steps, reqs>>

vars == <<mode, pc, calc, stdout, heap, call, installed, fpc, furl, fate, locals, mgr, res, exc, retval, outcome, steps, reqs>>

\* ------------------------------------------------------------------ greet
\* Python's str.strip() restricted to spaces, for greet_strip: a greet that
\* trims its argument.
RECURSIVE LStrip(_)
LStrip(s) == IF s # <<>> /\ Head(s) = " " THEN LStrip(Tail(s)) ELSE s

RECURSIVE RStrip(_)
RStrip(s) == IF s # <<>> /\ s[Len(s)] = " " THEN RStrip(SubSeq(s, 1, Len(s) - 1)) ELSE s

Strip(s) == RStrip(LStrip(s))

greet_strip(name) == HelloPrefix \o Strip(name) \o BangSuffix

\* def greet(name): message = f"Hello, {name}!"; return message
\* A replacement field with no conversion and no format spec yields the
\* str itself.
greet(name) == HelloPrefix \o name \o BangSuffix

\* ------------------------------------------------------------------ Calculator
\* The address a new object gets: the lowest one not in use.
NewId(hp) == CHOOSE i \in HolderIds \ DOMAIN hp : \A j \in HolderIds \ DOMAIN hp : i <= j

HasRoom(hp) == HolderIds \ DOMAIN hp # {}

Alloc(hp, id, r) == [i \in DOMAIN hp \cup {id} |-> IF i = id THEN [result |-> r] ELSE hp[i]]

\* Calculator(): __init__ sets self.result = 0; the call returns the new object.
Calculator(hp) == [heap |-> Alloc(hp, NewId(hp), 0), ret |-> NewId(hp)]

add_acc(hp, self, a, b) == [heap |-> [hp EXCEPT ![self].result = hp[self].result + (a + b)], ret |-> self]

add_copy(hp, self, a, b) ==
    IF HasRoom(hp)
    THEN [heap |-> Alloc(hp, NewId(hp), a + b), ret |-> NewId(hp)]
    ELSE [heap |-> [hp EXCEPT ![self].result = a + b], ret |-> self]

\* def add(self, a, b): self.result = a + b; return self
add(hp, self, a, b) == [heap |-> [hp EXCEPT ![self].result = a + b], ret |-> self]

subtract_acc(hp, self, a, b) == [heap |-> [hp EXCEPT ![self].result = hp[self].result + (a - b)], ret |-> self]

\* def subtract(self, a, b): self.result = a - b; return self
subtract(hp, self, a, b) == [heap |-> [hp EXCEPT ![self].result = a - b], ret |-> self]

multiply_add(a, b) == a + b

\* multiply = lambda a, b: a * b
multiply(a, b) == a * b

\* ------------------------------------------------------------------ print
Digits == <<"0", "1", "2", "3", "4", "5", "6", "7", "8", "9">>

RECURSIVE StrNat(_)
StrNat(n) == IF n < 10 THEN <<Digits[n + 1]>> ELSE StrNat(n \div 10) \o <<Digits[(n % 10) + 1]>>

\* str(n) of an int: its decimal digits, a minus sign first when negative.
Str(n) == IF n < 0 THEN <<"-">> \o StrNat(0 - n) ELSE StrNat(n)

\* print(s): one more line on standard output.
print(out, s) == Append(out, s)

\* ------------------------------------------------------------------ client calls
\* History kept with a method call on h: the call before it, when that was a
\* method call on h or one whose return value is h (a chained call).
NoPrev == [fn |-> "none", self |-> 0, ret |-> 0, same |-> FALSE]

PrevOf(h, a, b) ==
    IF call.fn \in {"add", "subtract"} /\ (call.self = h \/ call.ret = h)
    THEN [fn |-> call.fn, self |-> call.self, ret |-> call.ret, same |-> (call.args = <<a, b>>)]
    ELSE NoPrev

\* The module imported: a client may make any call, in any order.
Construct ==
    /\ mode = "import"
    /\ HasRoom(heap)
    /\ LET r == Calculator(heap) IN
        /\ heap' = r.heap
        /\ call' = [fn |-> "Calculator", self |-> 0, args |-> <<>>, ret |-> r.ret, prev |-> NoPrev]
    /\ UNCHANGED <<mode, pc, calc, stdout>>
    /\ UNCHANGED fetchVars

Add(h, a, b) ==
    /\ mode = "import"
    /\ h \in DOMAIN heap
    /\ LET r == add(heap, h, a, b) IN
        /\ heap' = r.heap
        /\ call' = [fn |-> "add", self |-> h, args |-> <<a, b>>, ret |-> r.ret, prev |-> PrevOf(h, a, b)]
    /\ UNCHANGED <<mode, pc, calc, stdout>>
    /\ UNCHANGED fetchVars

Subtract(h, a, b) ==
    /\ mode = "import"
    /\ h \in DOMAIN heap
    /\ LET r == subtract(heap, h, a, b) IN
        /\ heap' = r.heap
        /\ call' = [fn |-> "subtract", self |-> h, args |-> <<a, b>>, ret |-> r.ret, prev |-> PrevOf(h, a, b)]
    /\ UNCHANGED <<mode, pc, calc, stdout>>
    /\ UNCHANGED fetchVars

Multiply(a, b) ==
    /\ mode = "import"
    /\ call' = [fn |-> "multiply", self |-> 0, args |-> <<a, b>>, ret |-> multiply(a, b), prev |-> NoPrev]
    /\ UNCHANGED <<mode, pc, calc, stdout, heap>>
    /\ UNCHANGED fetchVars

Greet(name) ==
    /\ mode = "import"
    /\ call' = [fn |-> "greet", self |-> 0, args |-> <<name>>, ret |-> greet(name), prev |-> NoPrev]
    /\ UNCHANGED <<mode, pc, calc, stdout, heap>>
    /\ UNCHANGED fetchVars

\* ------------------------------------------------------------------ __main__
\* calc = Calculator()
MainConstruct ==
    /\ mode = "script"
    /\ pc = "construct"
    /\ LET r == Calculator(heap) IN
        /\ heap' = r.heap
        /\ calc' = r.ret
        /\ call' = [fn |-> "Calculator", self |-> 0, args |-> <<>>, ret |-> r.ret, prev |-> NoPrev]
    /\ pc' = "greet"
    /\ UNCHANGED <<mode, stdout>>
    /\ UNCHANGED fetchVars

\* print(greet("World"))
MainGreet ==
    /\ mode = "script"
    /\ pc = "greet"
    /\ stdout' = print(stdout, greet(World))
    /\ call' = [fn |-> "greet", self |-> 0, args |-> <<World>>, ret |-> greet(World), prev |-> NoPrev]
    /\ pc' = "add"
    /\ UNCHANGED <<mode, calc, heap>>
    /\ UNCHANGED fetchVars

MainAdd_stale ==
    /\ mode = "script"
    /\ pc = "add"
    /\ LET r == add(heap, calc, 5, 3) IN
        /\ heap' = r.heap
        /\ call' = [fn |-> "add", self |-> calc, args |-> <<5, 3>>, ret |-> r.ret, prev |-> NoPrev]
        /\ stdout' = print(stdout, Str(heap[calc].result))
    /\ pc' = "done"
    /\ UNCHANGED <<mode, calc>>
    /\ UNCHANGED fetchVars

\* print(calc.add(5, 3).result): the attribute is read on what add returned,
\* after add has run.
MainAdd ==
    /\ mode = "script"
    /\ pc = "add"
    /\ LET r == add(heap, calc, 5, 3) IN
        /\ heap' = r.heap
        /\ call' = [fn |-> "add", self |-> calc, args |-> <<5, 3>>, ret |-> r.ret, prev |-> NoPrev]
        /\ stdout' = print(stdout, Str(r.heap[r.ret].result))
    /\ pc' = "done"
    /\ UNCHANGED <<mode, calc>>
    /\ UNCHANGED fetchVars

Main == MainConstruct \/ MainGreet \/ MainAdd

\* ------------------------------------------------------------------ specification
NoCall == [fn |-> "none", self |-> 0, args |-> <<>>, ret |-> None, prev |-> NoPrev]

\* A call that has not finished has no outcome.
NoOutcome == [kind |-> "none", value |-> None]

Urls == {"u1", "u2"}

Fates == {"ok", "open_fails", "get_fails", "json_fails"}

Calls == 1..NumCalls

InitFetch ==
    /\ fpc = [c \in Calls |-> "idle"]
    /\ furl = [c \in Calls |-> None]
    /\ fate = [c \in Calls |-> None]
    /\ locals = [c \in Calls |-> [session |-> 0, response |-> 0]]
    /\ mgr = [c \in Calls |-> [session |-> 0, response |-> 0]]
    /\ res = <<>>
    /\ exc = [c \in Calls |-> None]
    /\ retval = [c \in Calls |-> None]
    /\ outcome = [c \in Calls |-> NoOutcome]
    /\ steps = [c \in Calls |-> <<>>]
    /\ reqs = <<>>

InitCalc ==
    /\ mode \in {"script", "import"}
    /\ pc = "construct"
    /\ calc = 0
    /\ stdout = <<>>
    /\ heap = <<>>
    /\ call = NoCall

Init == InitCalc /\ installed = TRUE /\ InitFetch

Next ==
    \/ Main
    \/ Construct
    \/ \E h \in HolderIds, a \in IntArgs, b \in IntArgs : Add(h, a, b)
    \/ \E h \in HolderIds, a \in IntArgs, b \in IntArgs : Subtract(h, a, b)
    \/ \E a \in IntArgs, b \in IntArgs : Multiply(a, b)
    \/ \E name \in Names : Greet(name)

Spec == Init /\ [][Next]_vars
\* ------------------------------------------------------------------ fetch_data
\* The body a server sends for a url, as response.json() parses it.
Body(url) == IF url = "u1" THEN "json_of_u1" ELSE "json_of_u2"

\* What the network capability raises at a step of call c, None when the
\* step succeeds.  Any exception raised into the coroutine at that step
\* (a connection error, a timeout, a cancellation) takes the same path.
FaultAt(c, step) ==
    CASE step = "import" -> IF installed THEN None ELSE "ModuleNotFoundError"
      [] step = "open" -> IF fate[c] = "open_fails" THEN "OpenError" ELSE None
      [] step = "get" -> IF fate[c] = "get_fails" THEN "ClientConnectionError" ELSE None
      [] step = "json" -> IF fate[c] = "json_fails" THEN "ContentTypeError" ELSE None
      [] OTHER -> None

OnNormal_swapped(p) ==
    CASE p = "import" -> "open"
      [] p = "open" -> "get"
      [] p = "get" -> "json"
      [] p = "json" -> "exit_session"
      [] p = "exit_session" -> "exit_response"
      [] p = "exit_response" -> "done"

\* Where control goes when the step at p completes: the two `async with`
\* blocks are entered outermost first and left innermost first.
OnNormal(p) ==
    CASE p = "import" -> "open"
      [] p = "open" -> "get"
      [] p = "get" -> "json"
      [] p = "json" -> "exit_response"
      [] p = "exit_response" -> "exit_session"
      [] p = "exit_session" -> "done"

OnRaise_nounwind(p) == "done"

\* A fetch that tries the request again when it fails.
OnRaise_retry(p) ==
    CASE p = "import" -> "done"
      [] p = "open" -> "done"
      [] p = "get" -> "get"
      [] p = "json" -> "exit_response"

\* Where control goes when the step at p raises: out of the function when no
\* `async with` block has been entered, else to the __aexit__ of the
\* innermost block entered.
OnRaise(p) ==
    CASE p = "import" -> "done"
      [] p = "open" -> "done"
      [] p = "get" -> "exit_session"
      [] p = "json" -> "exit_response"

\* Whether the __aexit__ of the context manager returns a true value, which
\* would swallow the exception in flight.  aiohttp's return None.
Suppresses(kind) == FALSE

Outcome_caught(e, v) == IF e = None THEN [kind |-> "return", value |-> v] ELSE [kind |-> "return", value |-> None]

\* How the call ends: the exception in flight leaves the function as it is
\* (there is no try/except), else the value of the return statement.
Outcome(e, v) == IF e = None THEN [kind |-> "return", value |-> v] ELSE [kind |-> "raise", value |-> e]

Frame_global(c) == 1

\* The frame that holds call c's local variables session and response: each
\* call of a coroutine function has its own.
Frame(c) == c

\* Call c moves to p with exception e in flight and return value v.
Advance(c, step, p, e, v) ==
    /\ fpc' = [fpc EXCEPT ![c] = p]
    /\ exc' = [exc EXCEPT ![c] = e]
    /\ retval' = [retval EXCEPT ![c] = v]
    /\ steps' = [steps EXCEPT ![c] = Append(@, step)]
    /\ outcome' = IF p = "done" THEN [outcome EXCEPT ![c] = Outcome(e, v)] ELSE outcome

\* A use of resource r by call c.
Touch(rs, r, c) == [rs EXCEPT ![r].users = @ \cup {c}, ![r].usedClosed = @ \/ ~rs[r].open]

\* fetch_data(url) is called and its coroutine scheduled.
Start(c, url, f) ==
    /\ fpc[c] = "idle"
    /\ fpc' = [fpc EXCEPT ![c] = "import"]
    /\ furl' = [furl EXCEPT ![c] = url]
    /\ fate' = [fate EXCEPT ![c] = f]
    /\ UNCHANGED <<installed, locals, mgr, res, exc, retval, outcome, steps, reqs>>
    /\ UNCHANGED calcVars

\* import aiohttp
Import(c) ==
    /\ fpc[c] = "import"
    /\ LET e == FaultAt(c, "import") IN
        Advance(c, "import", IF e = None THEN OnNormal("import") ELSE OnRaise("import"), e, None)
    /\ UNCHANGED <<installed, furl, fate, locals, mgr, res, reqs>>
    /\ UNCHANGED calcVars

\* async with aiohttp.ClientSession() as session: the session is created and
\* entered, then bound to the local variable.
OpenSession(c) ==
    /\ fpc[c] = "open"
    /\ LET e == FaultAt(c, "open")
           id == Len(res) + 1
       IN  IF e = None
           THEN /\ res' = Append(res, [kind |-> "session", owner |-> c, open |-> TRUE, users |-> {}, usedClosed |-> FALSE, url |-> None])
                /\ mgr' = [mgr EXCEPT ![c].session = id]
                /\ locals' = [locals EXCEPT ![Frame(c)].session = id]
                /\ Advance(c, "open", OnNormal("open"), None, None)
           ELSE /\ UNCHANGED <<res, mgr, locals>>
                /\ Advance(c, "open", OnRaise("open"), e, None)
    /\ UNCHANGED <<installed, furl, fate, reqs>>
    /\ UNCHANGED calcVars

\* async with session.get(url) as response: the request is sent through the
\* session the local variable names; the response is entered and bound.
Get(c) ==
    /\ fpc[c] = "get"
    /\ LET s == locals[Frame(c)].session
           e == IF res[s].open THEN FaultAt(c, "get") ELSE "SessionClosed"
           id == Len(res) + 1
           used == Touch(res, s, c)
       IN  /\ reqs' = Append(reqs, [by |-> c, url |-> furl[c], session |-> s, open |-> res[s].open])
           /\ IF e = None
              THEN /\ res' = Append(used, [kind |-> "response", owner |-> c, open |-> TRUE, users |-> {}, usedClosed |-> FALSE, url |-> furl[c]])
                   /\ mgr' = [mgr EXCEPT ![c].response = id]
                   /\ locals' = [locals EXCEPT ![Frame(c)].response = id]
                   /\ Advance(c, "get", OnNormal("get"), None, None)
              ELSE /\ res' = used
                   /\ UNCHANGED <<mgr, locals>>
                   /\ Advance(c, "get", OnRaise("get"), e, None)
    /\ UNCHANGED <<installed, furl, fate>>
    /\ UNCHANGED calcVars

\* return await response.json(): the body of the response the local variable
\* names is read and parsed; the value is kept until the blocks are left.
Json(c) ==
    /\ fpc[c] = "json"
    /\ LET r == locals[Frame(c)].response
           e == IF res[r].open THEN FaultAt(c, "json") ELSE "ConnectionClosed"
       IN  /\ res' = Touch(res, r, c)
           /\ IF e = None
              THEN Advance(c, "json", OnNormal("json"), None, Body(res[r].url))
              ELSE Advance(c, "json", OnRaise("json"), e, None)
    /\ UNCHANGED <<installed, furl, fate, locals, mgr, reqs>>
    /\ UNCHANGED calcVars

\* Leaving the inner block: __aexit__ of the response's context manager.
ExitResponse(c) ==
    /\ fpc[c] = "exit_response"
    /\ mgr[c].response # 0
    /\ LET r == mgr[c].response IN
        res' = [res EXCEPT ![r].open = FALSE, ![r].users = @ \cup {c}]
    /\ Advance(c, "exit_response", OnNormal("exit_response"),
               IF Suppresses("response") THEN None ELSE exc[c], retval[c])
    /\ UNCHANGED <<installed, furl, fate, locals, mgr, reqs>>
    /\ UNCHANGED calcVars

\* Leaving the outer block: __aexit__ of the session.
ExitSession(c) ==
    /\ fpc[c] = "exit_session"
    /\ LET s == mgr[c].session IN
        res' = [res EXCEPT ![s].open = FALSE, ![s].users = @ \cup {c}]
    /\ Advance(c, "exit_session", OnNormal("exit_session"),
               IF Suppresses("session") THEN None ELSE exc[c], retval[c])
    /\ UNCHANGED <<installed, furl, fate, locals, mgr, reqs>>
    /\ UNCHANGED calcVars

\* One step of call c of: async def fetch_data(url)
fetch_data(c) ==
    \/ \E url \in Urls, f \in Fates : Start(c, url, f)
    \/ Import(c)
    \/ OpenSession(c)
    \/ Get(c)
    \/ Json(c)
    \/ ExitResponse(c)
    \/ ExitSession(c)

\* The module imported by a client that only calls fetch_data.
InitF ==
    /\ mode = "import"
    /\ pc = "construct"
    /\ calc = 0
    /\ stdout = <<>>
    /\ heap = <<>>
    /\ call = NoCall
    /\ installed \in BOOLEAN
    /\ InitFetch

NextF == \E c \in Calls : fetch_data(c)

SpecF == InitF /\ [][NextF]_vars

\* ------------------------------------------------------------------ claims: Calculator
IsMethodCall == call.fn \in {"add", "subtract"}

\* C1: for all integers a, b and any holder, fresh or already mutated, once
\* add(a, b) and then subtract(a, b) have been called on it, its result is
\* a - b: the sum add wrote is overwritten, not combined with the difference.
C1_AddThenSubtract ==
    (/\ call.fn = "subtract"
     /\ call.prev.fn = "add"
     /\ call.prev.self = call.self
     /\ call.prev.same)
        => heap[call.self].result = call.args[1] - call.args[2]

\* add(1, -1) and then subtract(1, -1) on one holder: the sum is 0, the
\* difference 2.
C1_Witness ==
    /\ call.fn = "subtract"
    /\ call.prev.fn = "add"
    /\ call.prev.self = call.self
    /\ call.prev.same
    /\ call.args = <<1, 0 - 1>>
    /\ heap[call.self].result = 2

\* What the last call on its receiver leaves in result.
C2_LastOp ==
    /\ call.fn = "Calculator" => heap[call.ret].result = 0
    /\ call.fn = "add" => heap[call.self].result = call.args[1] + call.args[2]
    /\ call.fn = "subtract" => heap[call.self].result = call.args[1] - call.args[2]

\* A step changes the result of no holder but the receiver of an add or a
\* subtract, and a holder starts at 0.
C2_Frame ==
    /\ \A h \in DOMAIN heap :
        \/ h \in DOMAIN heap' /\ heap'[h].result = heap[h].result
        \/ call'.fn \in {"add", "subtract"} /\ call'.self = h
    /\ \A h \in DOMAIN heap' \ DOMAIN heap : heap'[h].result = 0

\* C2: in every reachable state the result of a Calculator reflects only the
\* last operation applied to it: 0 if none since construction, a + b after
\* add(a, b), a - b after subtract(a, b), whatever calls came before; every
\* other step leaves it as it is.
C2_ResultIsLastOperation == [](C2_LastOp) /\ [][C2_Frame]_vars

\* subtract(-1, 1) on a holder whose result an earlier add had made non-zero,
\* while another holder keeps the 2 of its own last call.
C2_Witness ==
    /\ call.fn = "subtract"
    /\ call.prev.fn = "add"
    /\ ~call.prev.same
    /\ call.args = <<0 - 1, 1>>
    /\ heap[call.self].result = 0 - 2
    /\ \E h \in DOMAIN heap : h # call.self /\ heap[h].result = 2

\* C3: add and subtract return the very holder they were called on, so a
\* chained call (one whose receiver is what the call before returned) acts on
\* the holder the chain started from, and .result read on what it returns
\* is that holder's field.
C3_ReturnsSelf ==
    /\ IsMethodCall => call.ret = call.self
    /\ (IsMethodCall /\ call.prev.fn # "none" /\ call.prev.ret = call.self) =>
        /\ call.self = call.prev.self
        /\ call.ret = call.prev.self
        /\ heap[call.ret].result = heap[call.prev.self].result
        /\ heap[call.prev.self].result =
            IF call.fn = "add" THEN call.args[1] + call.args[2] ELSE call.args[1] - call.args[2]

\* c.add(a, b).subtract(1, 0) with two holders alive: the chain acted on c.
C3_Witness ==
    /\ call.fn = "subtract"
    /\ call.prev.fn = "add"
    /\ call.prev.ret = call.self
    /\ ~call.prev.same
    /\ Cardinality(DOMAIN heap) >= 2
    /\ call.ret = call.prev.self
    /\ heap[call.ret].result = 1

\* ------------------------------------------------------------------ claims: greet, multiply
\* C6: for every string name, the empty one included, greet(name) is exactly
\* "Hello, " followed by name followed by "!": nothing added, trimmed or
\* escaped.
C6_GreetIsConcatenation ==
    call.fn = "greet" =>
        LET name == call.args[1]
            r == call.ret
        IN  /\ Len(r) = 7 + Len(name) + 1
            /\ SubSeq(r, 1, 7) = <<"H", "e", "l", "l", "o", ",", " ">>
            /\ SubSeq(r, 8, 7 + Len(name)) = name
            /\ r[Len(r)] = "!"

\* greet("") = "Hello, !"
C6_Witness ==
    /\ call.fn = "greet"
    /\ call.args[1] = <<>>
    /\ call.ret = <<"H", "e", "l", "l", "o", ",", " ", "!">>

\* greet(" {") keeps the leading space and the brace.
C6_WitnessSpace ==
    /\ call.fn = "greet"
    /\ call.args[1] = <<" ", "{">>
    /\ Len(call.ret) = 10

\* C7: for all integers a, b, multiply(a, b) returns a * b, and the call
\* leaves every Calculator's result as it was.
C7_MultiplyIsProduct ==
    /\ [](call.fn = "multiply" => call.ret = call.args[1] * call.args[2])
    /\ [][call'.fn = "multiply" => heap' = heap]_vars

\* multiply(-1, 1) = -1 while a Calculator holds a non-zero result.
C7_Witness ==
    /\ call.fn = "multiply"
    /\ call.args = <<0 - 1, 1>>
    /\ call.ret = 0 - 1
    /\ \E h \in DOMAIN heap : heap[h].result # 0

\* ------------------------------------------------------------------ claims: __main__
HelloWorldLine == <<"H", "e", "l", "l", "o", ",", " ", "W", "o", "r", "l", "d", "!">>

ExpectedOutput == <<HelloWorldLine, <<"8">>>>

FetchUntouched ==
    /\ \A c \in Calls : fpc[c] = "idle"
    /\ reqs = <<>>
    /\ res = <<>>

\* C8: run as a script, the __main__ block constructs one fresh holder,
\* prints "Hello, World!" first and 8 second, and stops having called only
\* Calculator, greet and add: multiply and fetch_data are never invoked.
C8_MainPrints ==
    mode = "script" =>
        /\ \E n \in 0..2 : stdout = SubSeq(ExpectedOutput, 1, n)
        /\ call.fn \in {"none", "Calculator", "greet", "add"}
        /\ Cardinality(DOMAIN heap) <= 1
        /\ FetchUntouched
        /\ pc # "done" => ENABLED Main
        /\ pc = "done" =>
            /\ stdout = ExpectedOutput
            /\ DOMAIN heap = {calc}
            /\ heap[calc].result = 8
            /\ call.fn = "add"
            /\ call.args = <<5, 3>>
            /\ ~ENABLED Next

C8_Witness ==
    /\ mode = "script"
    /\ pc = "done"
    /\ Len(stdout) = 2
    /\ stdout[2] = <<"8">>

\* ------------------------------------------------------------------ claims: fetch_data
Done(c) == fpc[c] = "done"

OwnedBy(c) == {r \in DOMAIN res : res[r].owner = c}

\* What the capability raises in call c: the fault of the first step that
\* has one.
Fault(c) ==
    IF FaultAt(c, "import") # None THEN FaultAt(c, "import")
    ELSE IF FaultAt(c, "open") # None THEN FaultAt(c, "open")
    ELSE IF FaultAt(c, "get") # None THEN FaultAt(c, "get")
    ELSE FaultAt(c, "json")

\* C4: on every exit path of fetch_data (return, failure of the request,
\* failure of the parse, failure before anything is acquired) every resource
\* the call acquired has been released when the call has finished, and by
\* the call itself.
C4_ReleasedOnEveryExit ==
    \A c \in Calls : Done(c) =>
        \A r \in OwnedBy(c) : ~res[r].open /\ c \in res[r].users

\* One call has ended by a failed parse with its session and its response
\* released, another by a failed request with its session released.
C4_Witness ==
    \E c \in Calls, d \in Calls :
        /\ Done(c) /\ outcome[c] = [kind |-> "raise", value |-> "ContentTypeError"]
        /\ Cardinality(OwnedBy(c)) = 2
        /\ \A r \in OwnedBy(c) : ~res[r].open
        /\ Done(d) /\ outcome[d] = [kind |-> "raise", value |-> "ClientConnectionError"]
        /\ Cardinality(OwnedBy(d)) = 1
        /\ \A r \in OwnedBy(d) : ~res[r].open

\* The successful exit: the value returned, both resources released.
C4_WitnessReturn ==
    \E c \in Calls :
        /\ Done(c) /\ outcome[c].kind = "return"
        /\ Cardinality(OwnedBy(c)) = 2
        /\ \A r \in OwnedBy(c) : ~res[r].open

\* C5: a failure the network capability raises inside fetch_data (importing
\* it, opening the session, the GET request, parsing the body) reaches the
\* caller as that same failure; it is not caught, not replaced, and no value
\* is returned in its place.
C5_FailurePropagates ==
    \A c \in Calls : Done(c) =>
        /\ Fault(c) # None => outcome[c] = [kind |-> "raise", value |-> Fault(c)]
        /\ outcome[c].kind = "return" => Fault(c) = None
        /\ outcome[c].kind \in {"return", "raise"}

\* A failed GET that reached the caller after the session was closed.
C5_Witness ==
    \E c \in Calls :
        /\ Done(c)
        /\ fate[c] = "get_fails"
        /\ outcome[c] = [kind |-> "raise", value |-> "ClientConnectionError"]
        /\ steps[c] = <<"import", "open", "get", "exit_session">>

\* The steps call c runs, given what the capability raises.
PlannedSteps(c) ==
    CASE FaultAt(c, "import") # None -> <<"import">>
      [] FaultAt(c, "open") # None -> <<"import", "open">>
      [] FaultAt(c, "get") # None -> <<"import", "open", "get", "exit_session">>
      [] OTHER -> <<"import", "open", "get", "json", "exit_response", "exit_session">>

RequestsBy(c) == {i \in DOMAIN reqs : reqs[i].by = c}

Occurs(step, c) == \E i \in DOMAIN steps[c] : steps[c][i] = step

\* C9: the steps of a call come in one fixed order with no retry: session
\* opened, one GET to the caller's url through the open session, body parsed
\* while the response is open, response released, then session released.  A
\* step that fails ends the sequence with the releases due.
C9_FixedOrder ==
    \A c \in Calls : fpc[c] # "idle" =>
        /\ Len(steps[c]) <= Len(PlannedSteps(c))
        /\ steps[c] = SubSeq(PlannedSteps(c), 1, Len(steps[c]))
        /\ Done(c) => steps[c] = PlannedSteps(c)
        /\ Cardinality(RequestsBy(c)) = (IF Occurs("get", c) THEN 1 ELSE 0)
        /\ \A i \in RequestsBy(c) :
            /\ reqs[i].url = furl[c]
            /\ reqs[i].open
            /\ reqs[i].session = mgr[c].session
        /\ \A r \in OwnedBy(c) : ~res[r].usedClosed
        /\ (mgr[c].session # 0 /\ mgr[c].response # 0 /\ res[mgr[c].response].open)
            => res[mgr[c].session].open
        /\ Occurs("json", c) => mgr[c].response # 0
        /\ Occurs("get", c) => mgr[c].session # 0

\* A call that returned: six steps, one request to its url, the response
\* closed and then the session.
C9_Witness ==
    \E c \in Calls :
        /\ Done(c)
        /\ outcome[c] = [kind |-> "return", value |-> Body(furl[c])]
        /\ steps[c] = <<"import", "open", "get", "json", "exit_response", "exit_session">>
        /\ Cardinality(RequestsBy(c)) = 1

\* A call between the two releases: response closed, session still open.
C9_WitnessBetween ==
    \E c \in Calls :
        /\ fpc[c] = "exit_session"
        /\ mgr[c].response # 0
        /\ ~res[mgr[c].response].open
        /\ res[mgr[c].session].open

\* How call c ends, from its own url and what the capability does to it.
ExpectedOutcome(c) ==
    IF Fault(c) # None
    THEN [kind |-> "raise", value |-> Fault(c)]
    ELSE [kind |-> "return", value |-> Body(furl[c])]

\* C10: calls in flight together each acquire a session and a response of
\* their own; no call uses or releases a resource another call acquired, and
\* how a call ends depends on its own url and network fate only, not on the
\* interleaving.
C10_NoSharing ==
    /\ \A r \in DOMAIN res : res[r].users \subseteq {res[r].owner}
    /\ \A c \in Calls :
        /\ mgr[c].session # 0 => res[mgr[c].session].owner = c
        /\ mgr[c].response # 0 => res[mgr[c].response].owner = c
        /\ locals[c] = mgr[c]
        /\ Done(c) => outcome[c] = ExpectedOutcome(c)
    /\ \A c \in Calls, d \in Calls :
        (c # d /\ mgr[c].session # 0) => mgr[c].session # mgr[d].session

\* Two calls interleaved: the second sent its request first, the first has
\* returned its own body while the second still holds its response open.
C10_Witness ==
    /\ NumCalls >= 2
    /\ Len(reqs) >= 2
    /\ reqs[1].by = 2
    /\ reqs[2].by = 1
    /\ furl[1] # furl[2]
    /\ Done(1)
    /\ outcome[1] = [kind |-> "return", value |-> Body(furl[1])]
    /\ fpc[2] = "exit_response"
    /\ res[mgr[2].response].open
    /\ res[mgr[2].session].open

=============================================================================
